---- MODULE Spec2Model ----
(***************************************************************************)
(* A model of the IoT backend: the MQTT handler (connection lifecycle,     *)
(* subscriptions, inbound routing, command publication), the HTTP control  *)
(* routes, and the latest-per-device aggregation of the telemetry log.     *)
(*                                                                         *)
(* The repository ships two HTTP front ends (server.js and the serverless  *)
(* api entry point) and two MQTT handlers (one that subscribes to sensor   *)
(* data only, one that also subscribes to servo/water status).  The pair   *)
(* in use is fixed at start-up: app and handler below.                     *)
(***************************************************************************)
EXTENDS Integers, Sequences, FiniteSets, TLC

VARIABLES
  app,            \* "api" (serverless entry point) or "server" (server.js)
  handler,        \* "lean" (mqtt-handler.js) or "full" (handler with status topics)
  env,            \* process.env: MQTT_BROKER and MQTT_PORT
  mqttHandler,    \* the front end's handler instance exists (not null)
  started,        \* the start-up routine has called connect()
  isConnected,    \* MqttHandler.isConnected
  phase,          \* this.mqttClient: none, connecting, connected, closing, offline
  brokerUp,       \* the broker is reachable
  subs,           \* topic filters the broker holds for the client's session
  subCalls,       \* subscribe() calls made by the latest connection event
  connects,       \* 'connect' events so far: "never", "once" or "again"
  orphans,        \* clients created earlier, never ended, no longer this.mqttClient
  servo_commands, \* table servo_commands, in insertion order
  outbox,         \* messages handed to mqttClient.publish, in order
  lastReq,        \* the HTTP control request just served, with its response
  sensor_data,    \* table sensor_data, in insertion order
  devices,        \* table devices: device_id -> directory entry
  inflight,       \* message handlers suspended on persistence I/O
  lastMsg,        \* the inbound message just delivered and where it was routed
  received,       \* inbound messages delivered so far
  rows,           \* rows a telemetry query read back
  result          \* what the query function returned

connVars == <<mqttHandler, started, isConnected, phase, brokerUp, subs, subCalls, connects,
              orphans>>
ctlVars  == <<servo_commands, outbox, lastReq>>
ingVars  == <<sensor_data, devices, inflight, lastMsg, received>>
aggVars  == <<rows, result>>
vars == <<app, handler, env, connVars, ctlVars, ingVars, aggVars>>

(***************************************************************************)
(* Bounds of the model.                                                    *)
(***************************************************************************)
MaxCommands == 1    \* rows the servo_commands table may hold
MaxPublished == 1   \* messages the outbox may hold
MaxMessages == 2    \* inbound messages delivered
MaxRows == 3        \* rows a telemetry query reads back
MaxClients == 2     \* broker clients alive at once

(***************************************************************************)
(* JavaScript values.  Strings are sequences of one-character strings; a   *)
(* number is its integral part n and its first decimal digit f.            *)
(***************************************************************************)
JsUndefined == [t |-> "undefined", n |-> 0, f |-> 0, s |-> <<>>]
JsNull == [t |-> "null", n |-> 0, f |-> 0, s |-> <<>>]
JsNaN == [t |-> "nan", n |-> 0, f |-> 0, s |-> <<>>]
JsNum(n) == [t |-> "number", n |-> n, f |-> 0, s |-> <<>>]
JsFrac(n, f) == [t |-> "number", n |-> n, f |-> f, s |-> <<>>]
JsStr(s) == [t |-> "string", n |-> 0, f |-> 0, s |-> s]
JsBool(b) == [t |-> "boolean", n |-> IF b THEN 1 ELSE 0, f |-> 0, s |-> <<>>]

DigitChars == <<"0", "1", "2", "3", "4", "5", "6", "7", "8", "9">>
IsDigit(c) == \E i \in 1..10 : DigitChars[i] = c
DigitVal(c) == (CHOOSE i \in 1..10 : DigitChars[i] = c) - 1

RECURSIVE NatChars(_)
NatChars(n) ==
  IF n < 10 THEN <<DigitChars[n + 1]>>
  ELSE NatChars(n \div 10) \o <<DigitChars[(n % 10) + 1]>>

\* String(v): the text parseInt and template strings see.
ToStringJs(v) ==
  CASE v.t = "string" -> v.s
    [] v.t = "number" ->
         (IF v.n < 0 THEN <<"-">> \o NatChars(0 - v.n) ELSE NatChars(v.n))
         \o (IF v.f = 0 THEN <<>> ELSE <<".", DigitChars[v.f + 1]>>)
    [] v.t = "nan" -> <<"N", "a", "N">>
    [] v.t = "boolean" -> IF v.n = 1 THEN <<"t", "r", "u", "e">>
                          ELSE <<"f", "a", "l", "s", "e">>
    [] v.t = "null" -> <<"n", "u", "l", "l">>
    [] OTHER -> <<"u", "n", "d", "e", "f", "i", "n", "e", "d">>

RECURSIVE SkipSpaces(_)
SkipSpaces(s) ==
  IF s # <<>> /\ Head(s) = " " THEN SkipSpaces(Tail(s)) ELSE s

\* The value of the longest prefix of digits of s, after acc digits read so far.
RECURSIVE DigitsValue(_, _)
DigitsValue(s, acc) ==
  IF s # <<>> /\ IsDigit(Head(s))
  THEN DigitsValue(Tail(s), acc * 10 + DigitVal(Head(s)))
  ELSE acc

\* parseInt(v), radix 10: leading blanks, an optional sign, then digits; NaN
\* when no digit follows.
ParseInt(v) ==
  LET str == SkipSpaces(ToStringJs(v))
      neg == str # <<>> /\ Head(str) = "-"
      body == IF str # <<>> /\ Head(str) \in {"-", "+"} THEN Tail(str) ELSE str
  IN IF body = <<>> \/ ~IsDigit(Head(body)) THEN JsNaN
     ELSE JsNum(IF neg THEN 0 - DigitsValue(body, 0) ELSE DigitsValue(body, 0))

\* Math.min / Math.max of two numbers without a fractional part, or NaN.
MathMin(a, b) ==
  IF a.t = "nan" \/ b.t = "nan" THEN JsNaN
  ELSE IF a.n <= b.n THEN a ELSE b
MathMax(a, b) ==
  IF a.t = "nan" \/ b.t = "nan" THEN JsNaN
  ELSE IF a.n >= b.n THEN a ELSE b

\* ToBoolean: false, 0, NaN, "", null and undefined are falsy.
Truthy(v) ==
  CASE v.t = "string" -> v.s # <<>>
    [] v.t = "number" -> v.n # 0 \/ v.f # 0
    [] v.t = "boolean" -> v.n = 1
    [] OTHER -> FALSE

\* a || b
OrElse(a, b) == IF Truthy(a) THEN a ELSE b

\* JSON.stringify of a property value, read back: NaN is written as null.
Json(v) == IF v.t = "nan" THEN JsNull ELSE v

\* The angle the API front end validates: clamp(parseInt(angle)) into [0,180].
ValidateAngle(angle) == MathMax(JsNum(0), MathMin(JsNum(180), ParseInt(angle)))


(***************************************************************************)
(* Strings used by the handler and the routes.                             *)
(***************************************************************************)
Slash == <<"/">>
StrControl == <<"c", "o", "n", "t", "r", "o", "l">>
StrServo == <<"s", "e", "r", "v", "o">>
StrWater == <<"w", "a", "t", "e", "r">>
StrSensor == <<"s", "e", "n", "s", "o", "r">>
StrData == <<"d", "a", "t", "a">>
StrStatus == <<"s", "t", "a", "t", "u", "s">>
StrOther == <<"o", "t", "h", "e", "r">>
StrWebApi == <<"w", "e", "b", "_", "a", "p", "i">>
Dev1 == <<"d", "1">>
Dev2 == <<"d", "2">>

(***************************************************************************)
(* The MQTT handler: connection lifecycle.                                 *)
(***************************************************************************)
Apps == {"api", "server"}
Handlers == {"lean", "full"}

\* The subscribe() calls of the 'connect' callback, in order.
SubscribeCallsNone == <<>>
SubscribeCalls ==
  IF handler = "lean" THEN <<"sensor/+/data">>
  ELSE <<"sensor/+/data", "servo/+/status", "water/+/status">>

Range(q) == {q[i] : i \in 1..Len(q)}

\* on('connect')
HandleConnect ==
  /\ isConnected' = TRUE
  /\ subCalls' = SubscribeCalls
  /\ subs' = subs \cup Range(SubscribeCalls)

\* on('error')
HandleError == isConnected' = FALSE

\* on('disconnect')
HandleDisconnect == isConnected' = FALSE

\* on('offline')
HandleOfflineKeep == isConnected' = isConnected
HandleOffline == isConnected' = FALSE

\* connect(): nothing when already connected, else a new client that starts
\* its first connection attempt; a client this.mqttClient referred to before is
\* not ended.
ConnectCall ==
  IF isConnected
  THEN UNCHANGED <<isConnected, phase, subs, subCalls, orphans>>
  ELSE /\ phase' = "connecting"
       /\ subCalls' = <<>>
       /\ orphans' = IF phase = "none" THEN orphans ELSE orphans + 1
       /\ UNCHANGED <<isConnected, subs>>

\* startServer() / initializeApp(): the handler instance exists and connect()
\* is called once.
StartApp ==
  /\ ~started
  /\ started' = TRUE
  /\ mqttHandler' = TRUE
  /\ ConnectCall
  /\ UNCHANGED <<connects, app, handler, env, brokerUp, ctlVars, ingVars, aggVars>>

\* The broker accepts the connection: the client emits 'connect'.
ConnectSuccess ==
  /\ phase = "connecting"
  /\ brokerUp
  /\ phase' = "connected"
  /\ HandleConnect
  /\ connects' = IF connects = "never" THEN "once" ELSE "again"
  /\ UNCHANGED <<orphans, app, handler, env, mqttHandler, started, brokerUp, ctlVars, ingVars, aggVars>>

\* The attempt is refused or times out (connectTimeout): the client emits
\* 'error' and/or 'offline' and waits for the reconnect timer.
ConnectFail ==
  /\ phase = "connecting"
  /\ ~brokerUp
  /\ phase' = "offline"
  /\ HandleOffline
  /\ subCalls' = <<>>
  /\ UNCHANGED <<connects, orphans, app, handler, env, mqttHandler, started, brokerUp, subs, ctlVars, ingVars, aggVars>>

\* The transport of a connected client is lost: the client emits 'offline';
\* the broker drops the subscriptions of the session, or keeps them.
Drop ==
  /\ phase = "connected"
  /\ phase' = "offline"
  /\ HandleOffline
  /\ subs' \in {{}, subs}
  /\ subCalls' = <<>>
  /\ UNCHANGED <<connects, orphans, app, handler, env, mqttHandler, started, brokerUp, ctlVars, ingVars, aggVars>>

\* The broker sends a DISCONNECT packet: the client emits 'disconnect'; the
\* broker then closes the network connection.
BrokerDisconnect ==
  /\ phase = "connected"
  /\ phase' = "closing"
  /\ HandleDisconnect
  /\ subCalls' = <<>>
  /\ UNCHANGED <<connects, orphans, app, handler, env, mqttHandler, started, brokerUp, subs, ctlVars, ingVars, aggVars>>

\* The connection the broker announced it would close is closed: 'offline'.
Close ==
  /\ phase = "closing"
  /\ phase' = "offline"
  /\ HandleOffline
  /\ subs' \in {{}, subs}
  /\ subCalls' = <<>>
  /\ UNCHANGED <<connects, orphans, app, handler, env, mqttHandler, started, brokerUp, ctlVars, ingVars, aggVars>>

\* The client emits 'error' without closing the transport.
ClientError ==
  /\ phase \in {"connecting", "connected"}
  /\ HandleError
  /\ subCalls' = <<>>
  /\ UNCHANGED <<connects, orphans, app, handler, env, mqttHandler, started, phase, brokerUp, subs, ctlVars, ingVars, aggVars>>

\* reconnectPeriod elapsed: the client starts another attempt.
ReconnectTick ==
  /\ phase = "offline"
  /\ phase' = "connecting"
  /\ subCalls' = <<>>
  /\ UNCHANGED <<connects, orphans, app, handler, env, mqttHandler, started, isConnected, brokerUp, subs, ctlVars, ingVars, aggVars>>

\* The broker becomes reachable or unreachable.
BrokerChange ==
  /\ brokerUp' = ~brokerUp
  /\ UNCHANGED <<connects, orphans, app, handler, env, mqttHandler, started, isConnected, phase, subs, subCalls, ctlVars, ingVars, aggVars>>

\* Broker clients alive: the one this.mqttClient refers to and those left behind.
Clients == (IF phase = "none" THEN 0 ELSE 1) + orphans

\* connect() is called again on the handler (the method is public and guards
\* itself against repetition).
ConnectAgain ==
  /\ mqttHandler
  /\ started
  /\ Clients < MaxClients
  /\ ConnectCall
  /\ UNCHANGED <<connects, app, handler, env, mqttHandler, started, brokerUp, ctlVars, ingVars, aggVars>>

\* A client left behind still runs the callbacks registered on it: its
\* 'connect' and its 'offline' set the flag of the handler.
OrphanEvent ==
  /\ orphans > 0
  /\ \/ isConnected' = TRUE
     \/ isConnected' = FALSE
  /\ UNCHANGED <<connects, orphans, app, handler, env, mqttHandler, started, phase, brokerUp, subs, subCalls, ctlVars, ingVars, aggVars>>

\* process.env with the broker settings absent, and with both set (the
\* values of process.env are strings).
EnvUnset == [MQTT_BROKER |-> JsUndefined, MQTT_PORT |-> JsUndefined]
EnvSet ==
  [MQTT_BROKER |-> JsStr(<<"m", "q", "t", "t", ":", "/", "/", "b">>),
   MQTT_PORT |-> JsStr(<<"8", "8", "8", "3">>)]
Envs == {EnvUnset, EnvSet}

\* this.host and this.port, set by the constructor.
DefaultBroker ==
  JsStr(<<"m", "q", "t", "t", ":", "/", "/", "b", "r", "o", "k", "e", "r", ".",
          "h", "i", "v", "e", "m", "q", ".", "c", "o", "m">>)
DefaultPort == 1883
Host == OrElse(env.MQTT_BROKER, DefaultBroker)
Port == OrElse(env.MQTT_PORT, JsNum(DefaultPort))

\* getStatus(), and the connection state its isConnected stands for.
GetStatusFlagOnly ==
  [isConnected |-> isConnected, broker |-> JsUndefined, port |-> JsUndefined]
GetStatus == [isConnected |-> isConnected, broker |-> Host, port |-> Port]
ConnectionState ==
  IF phase = "none" THEN "Disconnected"
  ELSE IF GetStatus.isConnected THEN "Connected"
  ELSE IF phase = "connecting" THEN "Connecting"
  ELSE "Offline"

(***************************************************************************)
(* The MQTT handler: command publication.                                  *)
(***************************************************************************)
Message(topic, field, value, deviceId, commandBy) ==
  [topic |-> topic, field |-> field, value |-> value,
   device_id |-> deviceId, command_by |-> commandBy]

ServoMessage(deviceId, angle, commandBy) ==
  Message(StrControl \o Slash \o ToStringJs(deviceId) \o Slash \o StrServo,
          IF handler = "lean" THEN "angle" ELSE "target_angle",
          Json(ParseInt(angle)), deviceId, commandBy)

WaterMessageRaw(deviceId, state, commandBy) ==
  Message(StrControl \o Slash \o ToStringJs(deviceId) \o Slash \o StrWater,
          IF handler = "lean" THEN "state" ELSE "water_state",
          state, deviceId, commandBy)
WaterMessage(deviceId, state, commandBy) ==
  Message(StrControl \o Slash \o ToStringJs(deviceId) \o Slash \o StrWater,
          IF handler = "lean" THEN "state" ELSE "water_state",
          JsBool(Truthy(state)), deviceId, commandBy)

\* publishServoCommand: the messages handed to mqttClient.publish.
PublishServoUnguarded(deviceId, angle, commandBy) ==
  <<ServoMessage(deviceId, angle, commandBy)>>
PublishServoCommand(deviceId, angle, commandBy) ==
  IF ~isConnected THEN <<>>
  ELSE <<ServoMessage(deviceId, angle, commandBy)>>

\* publishWaterCommand
PublishWaterCommand(deviceId, state, commandBy) ==
  IF ~isConnected THEN <<>>
  ELSE <<WaterMessage(deviceId, state, commandBy)>>

\* mqttClient.publish on a handler that never created a client raises.
PublishRaises(msgs) == msgs # <<>> /\ phase = "none"

(***************************************************************************)
(* The HTTP control routes.                                                *)
(***************************************************************************)
DeviceInputs == {JsUndefined, JsStr(Dev1)}
AngleInputs ==
  {JsUndefined, JsNum(90), JsNum(200), JsNum(0 - 5), JsFrac(90, 5),
   JsStr(<<"4", "5">>), JsStr(<<"a", "b", "c">>)}
StateInputs ==
  {JsUndefined, JsBool(TRUE), JsBool(FALSE), JsNum(0), JsNum(1),
   JsStr(<<"f", "a", "l", "s", "e">>)}
CommandByInputs == {JsUndefined}

NoRecord == [device_id |-> JsUndefined, target_angle |-> JsUndefined,
             final_angle |-> JsUndefined, command_by |-> JsUndefined,
             status |-> "none"]
NoReq == [route |-> "none", device_id |-> JsUndefined, input |-> JsUndefined,
          status |-> 0, value |-> JsUndefined, saved |-> NoRecord,
          pub |-> <<>>]

\* The angle the route stores, publishes and reports.
RouteAngle(angle) == IF app = "api" THEN ValidateAngle(angle) ELSE angle

ServoRecord(device_id, value, command_by) ==
  [device_id |-> device_id, target_angle |-> Json(value),
   final_angle |-> Json(value), command_by |-> OrElse(command_by, JsStr(StrWebApi)),
   status |-> "sent"]

\* The routes are served once the module is loaded (api) or once the server
\* listens, which is after connect() (server).
Serving == app = "server" => started

\* supabase.from(table).insert([rec]): the row is stored unless the store
\* answers with an error.
Insert(table, rec, ok) == IF ok THEN Append(table, rec) ELSE table

\* saveServoCommand: an error of the insert is thrown to the caller.
SaveServoCommandSwallows(dbOk) == FALSE
SaveServoCommandThrows(dbOk) == ~dbOk

\* POST /api/control/servo; dbOk: whether the insert into servo_commands succeeds.
ServoRequest(device_id, angle, command_by, dbOk) ==
  /\ Serving
  /\ Len(servo_commands) < MaxCommands
  /\ Len(outbox) < MaxPublished
  /\ IF ~Truthy(device_id) \/ angle = JsUndefined
     THEN /\ lastReq' = [NoReq EXCEPT !.route = "servo", !.device_id = device_id,
                                      !.input = angle, !.status = 400]
          /\ UNCHANGED <<servo_commands, outbox>>
     ELSE LET value == RouteAngle(angle)
              rec == ServoRecord(device_id, value, command_by)
              msgs == IF mqttHandler
                      THEN PublishServoCommand(device_id, value,
                                               OrElse(command_by, JsStr(StrWebApi)))
                      ELSE <<>>
          IN IF SaveServoCommandThrows(dbOk)
             THEN /\ servo_commands' = Insert(servo_commands, rec, dbOk)
                  /\ lastReq' = [NoReq EXCEPT !.route = "servo", !.device_id = device_id,
                                              !.input = angle, !.status = 500]
                  /\ UNCHANGED outbox
             ELSE IF PublishRaises(msgs)
             THEN /\ servo_commands' = Insert(servo_commands, rec, dbOk)
                  /\ lastReq' = [NoReq EXCEPT !.route = "servo", !.device_id = device_id,
                                              !.input = angle, !.status = 500,
                                              !.saved = rec]
                  /\ UNCHANGED outbox
             ELSE /\ servo_commands' = Insert(servo_commands, rec, dbOk)
                  /\ outbox' = outbox \o msgs
                  /\ lastReq' = [route |-> "servo", device_id |-> device_id,
                                 input |-> angle, status |-> 200,
                                 value |-> Json(value), saved |-> rec,
                                 pub |-> msgs]
  /\ UNCHANGED <<app, handler, env, connVars, ingVars, aggVars>>

\* POST /api/control/water
WaterRequest(device_id, state, command_by) ==
  /\ Serving
  /\ Len(outbox) < MaxPublished
  /\ IF ~Truthy(device_id) \/ state = JsUndefined
     THEN /\ lastReq' = [NoReq EXCEPT !.route = "water", !.device_id = device_id,
                                      !.input = state, !.status = 400]
          /\ UNCHANGED <<servo_commands, outbox>>
     ELSE LET msgs == IF mqttHandler
                      THEN PublishWaterCommand(device_id, state,
                                               OrElse(command_by, JsStr(StrWebApi)))
                      ELSE <<>>
          IN IF PublishRaises(msgs)
             THEN /\ lastReq' = [NoReq EXCEPT !.route = "water", !.device_id = device_id,
                                              !.input = state, !.status = 500]
                  /\ UNCHANGED <<servo_commands, outbox>>
             ELSE /\ outbox' = outbox \o msgs
                  /\ lastReq' = [route |-> "water", device_id |-> device_id,
                                 input |-> state, status |-> 200,
                                 value |-> Json(state), saved |-> NoRecord,
                                 pub |-> msgs]
                  /\ UNCHANGED servo_commands
  /\ UNCHANGED <<app, handler, env, connVars, ingVars, aggVars>>

(***************************************************************************)
(* Specifications.                                                         *)
(***************************************************************************)
NoMsg == [topic |-> <<>>, json |-> TRUE, route |-> "none"]

\* The state after the modules are loaded, the environment being one of envs.
Configured(envs) ==
  /\ app \in Apps
  /\ handler \in Handlers
  /\ env \in envs
  /\ mqttHandler = (app = "server")
  /\ started = FALSE
  /\ isConnected = FALSE
  /\ phase = "none"
  /\ brokerUp \in BOOLEAN
  /\ subs = {}
  /\ subCalls = <<>>
  /\ connects = "never"
  /\ orphans = 0
  /\ servo_commands = <<>>
  /\ outbox = <<>>
  /\ lastReq = NoReq
  /\ sensor_data = <<>>
  /\ devices = <<>>
  /\ inflight = <<>>
  /\ lastMsg = NoMsg
  /\ received = 0
  /\ rows = <<>>
  /\ result = <<>>

\* The broker settings left to their defaults.
Init == Configured({EnvUnset})

Connection ==
  \/ StartApp
  \/ ConnectSuccess
  \/ ConnectFail
  \/ Drop
  \/ BrokerDisconnect
  \/ Close
  \/ ClientError
  \/ ReconnectTick
  \/ BrokerChange

Control ==
  \/ \E d \in DeviceInputs, a \in AngleInputs, c \in CommandByInputs, ok \in BOOLEAN :
       ServoRequest(d, a, c, ok)
  \/ \E d \in DeviceInputs, s \in StateInputs, c \in CommandByInputs :
       WaterRequest(d, s, c)

NextControl == Connection \/ Control

NextClient == Connection \/ ConnectAgain \/ OrphanEvent

\* The handler over the connection lifecycle with connect() called any number
\* of times.
SpecClient == Init /\ [][NextClient]_vars

\* The front end serving control requests over the connection lifecycle.
SpecControl == Init /\ [][NextControl]_vars


(***************************************************************************)
(* Claims about the control routes (SpecControl).                          *)
(***************************************************************************)
IsServoAngle(v) == v.t = "number" /\ v.f = 0 /\ v.n >= 0 /\ v.n <= 180
ServoServed == lastReq.route = "servo" /\ lastReq.status = 200
PublishedValues(req) == {req.pub[i].value : i \in 1..Len(req.pub)}

\* C1 (as claimed): for every accepted servo request the persisted final_angle
\* and the published value are integers in [0,180], and an integer input in
\* [0,180] is persisted and published unchanged.
C1_AngleInRange ==
  ServoServed =>
    /\ IsServoAngle(lastReq.saved.final_angle)
    /\ \A v \in PublishedValues(lastReq) : IsServoAngle(v)
    /\ IsServoAngle(lastReq.input) =>
         /\ lastReq.saved.final_angle = lastReq.input
         /\ \A v \in PublishedValues(lastReq) : v = lastReq.input

\* C2 (as claimed): for every accepted servo request one validated value is
\* persisted as final_angle, published in the payload and reported as angle in
\* the response; an input of 200 gives 180.
C2_OneValue ==
  ServoServed =>
    /\ lastReq.saved.final_angle = lastReq.value
    /\ \A v \in PublishedValues(lastReq) : v = lastReq.value
    /\ lastReq.input = JsNum(200) => lastReq.value = JsNum(180)

\* C3 (as claimed): every control command of either kind that is served is
\* appended to the command log with status 'sent'.
C3_CommandLogged ==
  lastReq.route \in {"servo", "water"} /\ lastReq.status = 200 =>
    /\ lastReq.saved.status = "sent"
    /\ servo_commands # <<>>
    /\ servo_commands[Len(servo_commands)] = lastReq.saved

\* C4: while not connected, a control request that reaches publishServoCommand
\* or publishWaterCommand publishes nothing and still ends with a success
\* response; a message is handed to the broker only while Connected.
\* (RequestServed: a step of a control route, the only steps that change the
\* command log, the outbox or the last request.)
RequestServed == ctlVars' # ctlVars
C4_PublishOnlyConnected ==
  [][/\ outbox' # outbox => ConnectionState = "Connected" /\ phase = "connected"
     /\ (/\ RequestServed
         /\ ConnectionState # "Connected"
         /\ lastReq'.status # 400
         /\ lastReq'.route = "servo" => lastReq'.saved # NoRecord)
        => /\ outbox' = outbox
           /\ lastReq'.pub = <<>>
           /\ lastReq'.status = 200]_vars

\* C4 witness: a request served with success while the client was offline,
\* with nothing published.
C4_Witness ==
  /\ phase = "offline"
  /\ mqttHandler
  /\ lastReq.status = 200
  /\ lastReq.pub = <<>>
  /\ outbox = <<>>

\* C19 (as claimed): at most one broker client is alive at any moment, however
\* often connect() is called and whatever the client's state.
C19_OneClient == Clients <= 1

\* A required field is missing (not sent, or an empty device_id) or invalid
\* (an angle that is not a number).
MissingField(req) == ~Truthy(req.device_id) \/ req.input = JsUndefined
InvalidAngle(req) == req.route = "servo" /\ ParseInt(req.input) = JsNaN

\* C12 (as claimed): a control request with a missing or invalid required
\* field is answered with a client error and leaves the command log and the
\* outbox as they were.
C12_InvalidRejected ==
  [][RequestServed /\ (MissingField(lastReq') \/ InvalidAngle(lastReq')) =>
       /\ lastReq'.status = 400
       /\ servo_commands' = servo_commands
       /\ outbox' = outbox]_vars

\* The boolean a water-state input stands for: a boolean is itself, a number
\* is true unless zero, a string is true unless empty.
WaterInput(v) == v.t \in {"boolean", "number", "string"}
WaterTarget(v) ==
  CASE v.t = "boolean" -> v
    [] v.t = "number" -> JsBool(v.n # 0 \/ v.f # 0)
    [] v.t = "string" -> JsBool(v.s # <<>>)

\* C13: a water request with a device_id and a boolean, numeric or string
\* state is never answered with an error, and every message it publishes
\* carries a boolean that depends on the input alone.
C13_WaterCoercion ==
  lastReq.route = "water" /\ Truthy(lastReq.device_id) /\ WaterInput(lastReq.input) =>
    /\ lastReq.status = 200
    /\ \A v \in PublishedValues(lastReq) :
         v.t = "boolean" /\ v = WaterTarget(lastReq.input)

\* C13 witness: the text "false" was accepted and published as true.
C13_Witness ==
  /\ lastReq.route = "water"
  /\ lastReq.input = JsStr(<<"f", "a", "l", "s", "e">>)
  /\ lastReq.status = 200
  /\ PublishedValues(lastReq) = {JsBool(TRUE)}


(***************************************************************************)
(* Latest-per-device aggregation (getAllDevicesLatestData).                *)
(*                                                                         *)
(* A timestamp is the text the store returns: an hour of day and a UTC     *)
(* offset in hours, as in "...T11:00:00+02:00".                            *)
(***************************************************************************)
Stamp(hh, off) == [hh |-> hh, off |-> off]
Stamps == {Stamp(10, 0), Stamp(11, 0), Stamp(11, 2), Stamp(12, 2)}
Temperatures == {20, 21}
TelemetryRows ==
  [device_id : {Dev1, Dev2}, timestamp : Stamps, temperature : Temperatures]

\* new Date(timestamp): the instant, in hours UTC.
DateOf(ts) == ts.hh - ts.off

\* The order of the timestamp texts themselves.
TextAfter(a, b) == a.hh > b.hh \/ (a.hh = b.hh /\ a.off > b.off)

\* new Date(item.timestamp) > new Date(kept.timestamp)
NewerByText(item, kept) == TextAfter(item.timestamp, kept.timestamp)
NewerNever(item, kept) == FALSE
Newer(item, kept) == DateOf(item.timestamp) > DateOf(kept.timestamp)

\* latestData is kept as its values in key insertion order (Object.values).
KeyIndex(latest, id) ==
  IF \E i \in 1..Len(latest) : latest[i].device_id = id
  THEN CHOOSE i \in 1..Len(latest) : latest[i].device_id = id
  ELSE 0

\* data.forEach(item => ...) starting from latestData = latest
RECURSIVE GroupPass(_, _)
GroupPass(data, latest) ==
  IF data = <<>> THEN latest
  ELSE LET item == Head(data)
           i == KeyIndex(latest, item.device_id)
       IN GroupPass(Tail(data),
                    IF i = 0 THEN Append(latest, item)
                    ELSE IF Newer(item, latest[i]) THEN [latest EXCEPT ![i] = item]
                    ELSE latest)

NoResult == [state |-> "none", data |-> <<>>]

\* getAllDevicesLatestData, given what the select returned.
GetAllDevicesLatestData(data, error) ==
  IF error THEN [state |-> "error", data |-> <<>>]
  ELSE [state |-> "ok", data |-> GroupPass(data, <<>>)]

BoundedSeqs(S, n) == UNION {[1..k -> S] : k \in 0..n}
Permuted(q) ==
  {[i \in 1..Len(q) |-> q[f[i]]] : f \in Permutations(1..Len(q))}

\* GET /api/data without device_id: the store returns the log's rows in some
\* order, or an error.
QueryAll ==
  /\ \E error \in BOOLEAN :
       result' = GetAllDevicesLatestData(rows, error)
  /\ UNCHANGED <<app, handler, env, connVars, ctlVars, ingVars, rows>>

\* The same rows are read back in another order.
ReadBack ==
  /\ rows' \in Permuted(rows)
  /\ result' = NoResult
  /\ UNCHANGED <<app, handler, env, connVars, ctlVars, ingVars>>

InitAgg ==
  /\ app = "api"
  /\ handler = "lean"
  /\ env = EnvUnset
  /\ mqttHandler = FALSE
  /\ started = FALSE
  /\ isConnected = FALSE
  /\ phase = "none"
  /\ brokerUp = FALSE
  /\ subs = {}
  /\ subCalls = <<>>
  /\ connects = "never"
  /\ orphans = 0
  /\ servo_commands = <<>>
  /\ outbox = <<>>
  /\ lastReq = NoReq
  /\ sensor_data = <<>>
  /\ devices = <<>>
  /\ inflight = <<>>
  /\ lastMsg = NoMsg
  /\ received = 0
  /\ rows \in BoundedSeqs(TelemetryRows, MaxRows)
  /\ result = NoResult

NextAgg == QueryAll \/ ReadBack

\* The aggregation applied to every telemetry log of at most MaxRows rows.
SpecAgg == InitAgg /\ [][NextAgg]_vars

(***************************************************************************)
(* Claims about the aggregation (SpecAgg).                                 *)
(***************************************************************************)
DeviceIdsOf(q) == {q[i].device_id : i \in 1..Len(q)}
RowsOf(q, id) == {q[i] : i \in {j \in 1..Len(q) : q[j].device_id = id}}
InstantsOf(q) == {<<q[i].device_id, DateOf(q[i].timestamp)>> : i \in 1..Len(q)}

C6_SameRecords ==
  result.state = "ok" =>
    \A q \in Permuted(rows) : Range(GroupPass(q, <<>>)) = Range(result.data)

SameInstantTwice(q) ==
  \E i, j \in 1..Len(q) :
    /\ i # j
    /\ q[i].device_id = q[j].device_id
    /\ DateOf(q[i].timestamp) = DateOf(q[j].timestamp)

\* C6 (amended): grouping any permutation of the rows yields, for every
\* device_id, a record with the same instant; the same set of records when no
\* device has two records with one instant; and grouping the result again
\* returns the result.
C6_OrderIndependent ==
  result.state = "ok" =>
    /\ \A q \in Permuted(rows) :
         /\ InstantsOf(GroupPass(q, <<>>)) = InstantsOf(result.data)
         /\ ~SameInstantTwice(rows) =>
              Range(GroupPass(q, <<>>)) = Range(result.data)
    /\ GroupPass(result.data, <<>>) = result.data

\* C6 witness: three rows of two devices, no instant twice, not in timestamp
\* order, grouped.
C6_Witness ==
  /\ result.state = "ok"
  /\ Len(rows) = 3
  /\ ~SameInstantTwice(rows)
  /\ rows[1].device_id = rows[3].device_id
  /\ rows[1].device_id # rows[2].device_id
  /\ DateOf(rows[1].timestamp) < DateOf(rows[3].timestamp)
  /\ Len(result.data) = 2


(***************************************************************************)
(* Inbound messages: routing and telemetry ingestion.                      *)
(***************************************************************************)
StartsWith(t, prefix) ==
  Len(t) >= Len(prefix) /\ SubSeq(t, 1, Len(prefix)) = prefix
EndsWith(t, suffix) ==
  Len(t) >= Len(suffix) /\ SubSeq(t, Len(t) - Len(suffix) + 1, Len(t)) = suffix

\* The handler the 'message' callback awaits for a topic ("none": no handler).
RouteBySuffix(topic) ==
  IF EndsWith(topic, Slash \o StrData) THEN "handleSensorData"
  ELSE IF handler = "full" /\ EndsWith(topic, Slash \o StrStatus)
  THEN "handleServoStatus"
  ELSE "none"
Route(topic) ==
  IF StartsWith(topic, StrSensor \o Slash) /\ EndsWith(topic, Slash \o StrData)
  THEN "handleSensorData"
  ELSE IF handler = "full" /\ StartsWith(topic, StrServo \o Slash)
                           /\ EndsWith(topic, Slash \o StrStatus)
  THEN "handleServoStatus"
  ELSE IF handler = "full" /\ StartsWith(topic, StrWater \o Slash)
                           /\ EndsWith(topic, Slash \o StrStatus)
  THEN "handleWaterStatus"
  ELSE "none"

Topics ==
  {StrSensor \o Slash \o Dev1 \o Slash \o StrData,
   StrServo \o Slash \o Dev1 \o Slash \o StrStatus,
   StrWater \o Slash \o Dev1 \o Slash \o StrStatus,
   StrOther \o Slash \o Dev1 \o Slash \o StrData,
   StrSensor \o Slash \o Dev1 \o Slash \o Dev2 \o Slash \o StrData}

\* Message bodies: text that is not JSON, and two sensor readings, the first
\* without pressure and the optional fields, the second with every field.
Payload(ok, device_id, temperature, humidity, pressure, servo_state, water_state) ==
  [json |-> ok, device_id |-> device_id, temperature |-> temperature,
   humidity |-> humidity, pressure |-> pressure,
   servo_state |-> servo_state, water_state |-> water_state]
Payloads ==
  {Payload(FALSE, JsUndefined, JsUndefined, JsUndefined, JsUndefined, JsUndefined,
           JsUndefined),
   Payload(TRUE, JsStr(Dev1), JsFrac(21, 5), JsNum(55), JsUndefined, JsUndefined,
           JsUndefined),
   Payload(TRUE, JsStr(Dev2), JsNum(30), JsNum(60), JsNum(1013), JsNum(90),
           JsBool(FALSE))}

\* handleSensorData: the object passed to saveSensorData.
SensorDataDefaultsOnly(data) ==
  [device_id |-> data.device_id, temperature |-> data.temperature,
   humidity |-> data.humidity, pressure |-> data.pressure,
   servo_state |-> JsNum(0), water_state |-> JsBool(FALSE)]
SensorData(data) ==
  [device_id |-> data.device_id, temperature |-> data.temperature,
   humidity |-> data.humidity, pressure |-> data.pressure,
   servo_state |-> OrElse(data.servo_state, JsNum(0)),
   water_state |-> OrElse(data.water_state, JsBool(FALSE))]

\* The store's clock: it advances with every message delivered and every row
\* stored.
Clock == received + Len(sensor_data)

\* The timestamps the store may give a new sensor_data row (column default):
\* the time the insert was sent or the time it completes; timestamps need not
\* follow the order in which rows are stored.
DbNow(task) == {Stamp(10 + task.issued, 0), Stamp(10 + Clock, 0)}

\* saveSensorData: the row inserted; topic and msg record the message it
\* came from.
SensorRow(task, timestamp) ==
  [device_id |-> task.data.device_id, temperature |-> task.data.temperature,
   humidity |-> task.data.humidity, pressure |-> task.data.pressure,
   servo_state |-> OrElse(task.data.servo_state, JsNum(0)),
   water_state |-> OrElse(task.data.water_state, JsBool(FALSE)),
   timestamp |-> timestamp, topic |-> task.topic, msg |-> task.msg]

\* A message handler suspended at an await: the operation awaited, the data it
\* holds, and the message (topic, body, delivery number, time) it is running
\* for.
Task(op, topic, payload, data) ==
  [op |-> op, topic |-> topic, payload |-> payload, data |-> data,
   msg |-> received + 1, issued |-> Clock]

RemoveAt(q, i) == SubSeq(q, 1, i - 1) \o SubSeq(q, i + 1, Len(q))

\* handleSensorData's catch: the error is logged and the handler returns, so
\* the task ends.
AfterAppendErrorIgnored(q, i) == [q EXCEPT ![i].op = "upsert devices"]
AfterAppendError(q, i) == RemoveAt(q, i)

\* JSON.parse(message.toString()) returns (it throws on text that is not JSON).
ParsesAnything(payload) == TRUE
Parses(payload) == payload.json

\* on('message'): parse, route, and run the handler up to its first await.
\* lastMsg keeps the topic, whether the body was JSON, and the handler chosen.
OnMessage(topic, payload) ==
  /\ phase = "connected"
  /\ received < MaxMessages
  /\ received' = received + 1
  /\ IF ~Parses(payload)
     THEN /\ lastMsg' = [topic |-> topic, json |-> payload.json, route |-> "parse error"]
          /\ UNCHANGED inflight
     ELSE /\ lastMsg' = [topic |-> topic, json |-> payload.json, route |-> Route(topic)]
          /\ inflight' =
               CASE Route(topic) = "handleSensorData" ->
                      Append(inflight, Task("insert sensor_data", topic, payload,
                                             SensorData(payload)))
                 [] Route(topic) = "handleServoStatus" ->
                      Append(inflight, Task("insert servo_commands", topic, payload,
                                             payload))
                 [] OTHER -> inflight
  /\ UNCHANGED <<app, handler, env, connVars, ctlVars, sensor_data, devices, aggVars>>

\* saveSensorData resumes after the insert into sensor_data: on an error it
\* throws (handleSensorData logs it), else it goes on to upsert the device.
SensorInsertDone(i, ok) ==
  /\ i \in 1..Len(inflight)
  /\ inflight[i].op = "insert sensor_data"
  /\ IF ok
     THEN /\ \E timestamp \in DbNow(inflight[i]) :
               sensor_data' = Append(sensor_data, SensorRow(inflight[i], timestamp))
          /\ inflight' = [inflight EXCEPT ![i].op = "upsert devices"]
     ELSE /\ inflight' = AfterAppendError(inflight, i)
          /\ UNCHANGED sensor_data
  /\ UNCHANGED <<app, handler, env, connVars, ctlVars, devices, lastMsg, received, aggVars>>

SetEntry(dir, id, entry) ==
  IF \E k \in 1..Len(dir) : dir[k].device_id = id
  THEN [k \in 1..Len(dir) |-> IF dir[k].device_id = id THEN entry ELSE dir[k]]
  ELSE Append(dir, entry)

\* saveSensorData resumes after the upsert into devices: an error is logged only.
DeviceUpsertDone(i, ok) ==
  /\ i \in 1..Len(inflight)
  /\ inflight[i].op = "upsert devices"
  /\ inflight' = RemoveAt(inflight, i)
  /\ devices' =
       IF ok
       THEN SetEntry(devices, inflight[i].data.device_id,
                     [device_id |-> inflight[i].data.device_id, is_online |-> TRUE])
       ELSE devices
  /\ UNCHANGED <<app, handler, env, connVars, ctlVars, sensor_data, lastMsg, received, aggVars>>

\* handleServoStatus resumes after saveServoCommand's insert.
StatusInsertDone(i, ok) ==
  /\ i \in 1..Len(inflight)
  /\ inflight[i].op = "insert servo_commands"
  /\ inflight' = RemoveAt(inflight, i)
  /\ servo_commands' =
       IF ok
       THEN Append(servo_commands,
                   [device_id |-> inflight[i].data.device_id,
                    target_angle |-> JsUndefined, final_angle |-> JsUndefined,
                    command_by |-> JsUndefined, status |-> "undefined"])
       ELSE servo_commands
  /\ UNCHANGED <<app, handler, env, connVars, outbox, lastReq, sensor_data, devices,
                 lastMsg, received, aggVars>>

Ingestion ==
  \/ \E t \in Topics, p \in Payloads : OnMessage(t, p)
  \/ \E i \in 1..MaxMessages, ok \in BOOLEAN : SensorInsertDone(i, ok)
  \/ \E i \in 1..MaxMessages, ok \in BOOLEAN : DeviceUpsertDone(i, ok)
  \/ \E i \in 1..MaxMessages, ok \in BOOLEAN : StatusInsertDone(i, ok)

Next == Connection \/ Ingestion

\* The handler over the connection lifecycle, receiving messages.
Spec == Init /\ [][Next]_vars

\* The same, with the scheduling the runtime provides: start-up runs, the
\* reconnect timer fires, a pending connection attempt ends, and a connection
\* the broker said it would close is closed.
Fairness ==
  /\ WF_vars(StartApp)
  /\ WF_vars(ReconnectTick)
  /\ WF_vars(ConnectSuccess)
  /\ WF_vars(ConnectFail)
  /\ WF_vars(Close)
LiveSpec == Spec /\ Fairness

(***************************************************************************)
(* The single-device query (getLatestSensorData) over the ingested log.    *)
(***************************************************************************)
DeviceIdInputs == {JsStr(Dev1), JsStr(Dev2)}

\* .eq('device_id', deviceId), applied when deviceId is given.
Selected(table, deviceId) ==
  IF Truthy(deviceId) THEN SelectSeq(table, LAMBDA row : row.device_id = deviceId)
  ELSE table

\* .order('timestamp', { ascending: false }).limit(1): the rows that may come
\* first, each as the one-row answer.
OrderDescLimit1(data) ==
  {<<data[i]>> : i \in {j \in 1..Len(data) :
     \A k \in 1..Len(data) : DateOf(data[k].timestamp) <= DateOf(data[j].timestamp)}}

\* getLatestSensorData(deviceId), given what the select returned: data[0]
\* (kept as a sequence of at most one row; empty stands for undefined).
GetLatestSensorData(data, error) ==
  IF error THEN [state |-> "error", data |-> <<>>]
  ELSE [state |-> "ok", data |-> IF data = <<>> THEN <<>> ELSE <<data[1]>>]

\* GET /api/data?device_id=...: rows is what the select returned; the answer
\* is 200 with the function's result, or 500 when it throws.
QueryLatest(deviceId) ==
  /\ Serving
  /\ \E error \in BOOLEAN :
       \E data \in IF error \/ Selected(sensor_data, deviceId) = <<>> THEN {<<>>}
                    ELSE OrderDescLimit1(Selected(sensor_data, deviceId)) :
         /\ rows' = data
         /\ result' = GetLatestSensorData(data, error)
         /\ lastReq' = [NoReq EXCEPT !.route = "data", !.device_id = deviceId,
                                     !.status = IF error THEN 500 ELSE 200]
  /\ UNCHANGED <<app, handler, env, connVars, servo_commands, outbox, ingVars>>

\* GET /api/mqtt-status: getStatus() of the handler, or a bare flag while no
\* handler exists; result is the status object sent back.
StatusRequest ==
  /\ result' = IF mqttHandler THEN GetStatus
               ELSE [isConnected |-> FALSE, broker |-> JsUndefined, port |-> JsUndefined]
  /\ lastReq' = [NoReq EXCEPT !.route = "mqtt-status", !.status = 200]
  /\ UNCHANGED <<app, handler, env, connVars, servo_commands, outbox, ingVars, rows>>

\* Every method of the handler next to the connection lifecycle: status
\* reads, a control request of each kind (publishServoCommand,
\* publishWaterCommand), and the 'message' callback on a sensor and on a status
\* topic with a body that is not JSON and one that is, each handler running
\* up to its await.
FramePayloads == {p \in Payloads : p.device_id # JsStr(Dev2)}
FrameTopics ==
  {StrSensor \o Slash \o Dev1 \o Slash \o StrData,
   StrServo \o Slash \o Dev1 \o Slash \o StrStatus}
NextFrame ==
  \/ Connection
  \/ StatusRequest
  \/ ServoRequest(JsStr(Dev1), JsNum(90), JsUndefined, TRUE)
  \/ WaterRequest(JsStr(Dev1), JsBool(TRUE), JsUndefined)
  \/ \E t \in FrameTopics, p \in FramePayloads : OnMessage(t, p)

InitFrame == Configured(Envs)
SpecFrame == InitFrame /\ [][NextFrame]_vars

NextIngest ==
  \/ StartApp
  \/ ConnectSuccess
  \/ Ingestion

\* The handler on its first connection, receiving messages.
SpecIngest == Init /\ [][NextIngest]_vars

NextQuery == NextIngest \/ \E d \in DeviceIdInputs : QueryLatest(d)

\* The same, with the single-device query served alongside.
SpecQuery == Init /\ [][NextQuery]_vars


(***************************************************************************)
(* Claims about the connection lifecycle and routing (Spec, LiveSpec).     *)
(***************************************************************************)
EntersConnected == ConnectionState # "Connected" /\ ConnectionState' = "Connected"

\* C7: connect() leaves the state Connecting, a successful attempt Connected,
\* a transport drop in Connected leaves it Offline, the reconnect timer
\* Connecting and the next successful attempt Connected; the state becomes
\* Connected by a successful attempt only, so it is not Connected between a
\* drop and the next success.
C7_Lifecycle ==
  [][/\ StartApp => ConnectionState = "Disconnected" /\ ConnectionState' = "Connecting"
     /\ ConnectSuccess => ConnectionState = "Connecting" /\ ConnectionState' = "Connected"
     /\ Drop /\ ConnectionState = "Connected" => ConnectionState' = "Offline"
     /\ ReconnectTick => ConnectionState = "Offline" /\ ConnectionState' = "Connecting"
     /\ EntersConnected => ConnectSuccess]_vars

\* C7 witness: Connected again after a drop (the second 'connect' event).
C7_Witness == connects = "again" /\ ConnectionState = "Connected" /\ phase = "connected"

AllInboundFilters == {"sensor/+/data", "servo/+/status", "water/+/status"}

\* C8 (as claimed): every transition into Connected issues subscriptions for
\* sensor/+/data, servo/+/status and water/+/status.
C8_AllFilters ==
  [][EntersConnected =>
       Range(subCalls') = AllInboundFilters /\ subs' = AllInboundFilters]_vars

\* C8 (amended): every transition into Connected, the first and each later
\* one, issues a subscription for sensor/+/data, and the handler with status
\* topics also for servo/+/status and water/+/status; while Connected the
\* subscribed set is exactly the set issued, however often it was issued.
C8_Resubscribe ==
  [][/\ EntersConnected =>
          /\ "sensor/+/data" \in Range(subCalls')
          /\ handler = "full" => Range(subCalls') = AllInboundFilters
          /\ handler = "lean" => Range(subCalls') = {"sensor/+/data"}
          /\ subs' = Range(subCalls')
     /\ ConnectionState' = "Connected" => subs' = Range(subCalls')]_vars

\* C8 witness: Connected after a reconnect with the status-topic handler, the
\* three filters subscribed.
C8_Witness ==
  /\ connects = "again"
  /\ ConnectionState = "Connected"
  /\ handler = "full"
  /\ subs = AllInboundFilters

\* C9 (as claimed): if the broker is reachable from some point on, the state
\* becomes Connected again and again, whatever state it was in.
C9_EventuallyConnected ==
  <>[]brokerUp => []<>(ConnectionState = "Connected")

\* Splitting a topic at "/".
RECURSIVE Segments(_, _)
Segments(t, cur) ==
  IF t = <<>> THEN <<cur>>
  ELSE IF Head(t) = "/" THEN <<cur>> \o Segments(Tail(t), <<>>)
  ELSE Segments(Tail(t), Append(cur, Head(t)))

\* A topic matches category/+/suffix: three segments, the middle one any.
MatchesPattern(topic, category, suffix) ==
  LET segs == Segments(topic, <<>>)
  IN Len(segs) = 3 /\ segs[1] = category /\ segs[3] = suffix
MatchesKnownPattern(topic) ==
  \/ MatchesPattern(topic, StrSensor, StrData)
  \/ MatchesPattern(topic, StrServo, StrStatus)
  \/ MatchesPattern(topic, StrWater, StrStatus)

\* A topic begins with the category segment and ends with the suffix segment.
FramedBy(topic, category, suffix) ==
  LET segs == Segments(topic, <<>>)
  IN Len(segs) >= 2 /\ segs[1] = category /\ segs[Len(segs)] = suffix
FramedByKnown(topic) ==
  \/ FramedBy(topic, StrSensor, StrData)
  \/ handler = "full" /\ FramedBy(topic, StrServo, StrStatus)
  \/ handler = "full" /\ FramedBy(topic, StrWater, StrStatus)

Dispatched == lastMsg.route \notin {"none", "parse error"}
TopicsPersisting ==
  {inflight[i].topic : i \in 1..Len(inflight)}
    \cup {sensor_data[i].topic : i \in 1..Len(sensor_data)}

\* C10 (as claimed): a topic that matches none of sensor/+/data,
\* servo/+/status, water/+/status is not dispatched and persists nothing.
C10_UnmatchedDropped ==
  /\ Dispatched => MatchesKnownPattern(lastMsg.topic)
  /\ \A t \in TopicsPersisting : MatchesKnownPattern(t)

\* C10 (amended): only a topic of at least two segments that begins with the
\* segment sensor and ends with the segment data (with the status-topic
\* handler also servo ... status and water ... status) is dispatched or
\* persists anything; the segments between are not examined.
C10_UnframedDropped ==
  /\ Dispatched => FramedByKnown(lastMsg.topic)
  /\ \A t \in TopicsPersisting : FramedByKnown(t)

\* C10 witness: a message on other/d1/data was delivered and not dispatched,
\* after an earlier message was persisted.
C10_Witness ==
  /\ lastMsg.topic = StrOther \o Slash \o Dev1 \o Slash \o StrData
  /\ lastMsg.route = "none"
  /\ Len(sensor_data) = 1
  /\ inflight = <<>>


(***************************************************************************)
(* Claims about telemetry ingestion (Spec).                                *)
(***************************************************************************)
Held(k) == \E i \in 1..Len(inflight) : inflight[i].msg = k
Appending(k) ==
  \E i \in 1..Len(inflight) :
    inflight[i].msg = k /\ inflight[i].op = "insert sensor_data"
Recorded(k) == \E j \in 1..Len(sensor_data) : sensor_data[j].msg = k
Consumed(k) == k \in 1..received /\ ~Held(k)
WithoutMsg(q, k) == SelectSeq(q, LAMBDA task : task.msg # k)

\* The append awaited for message k ends without a row for it: it failed.
AppendFailed(k) == Appending(k) /\ ~Appending(k)' /\ ~Recorded(k)'

\* C11: when the telemetry append of a sensor message fails, the handler of
\* that message ends (the message is consumed), the telemetry log, the device
\* directory, the connection state and the handlers of other messages are
\* left as they were; and a message that was consumed without a record is
\* never taken up again and never gets a record.
C11_AppendFailureSwallowed ==
  [][\A k \in 1..received :
       /\ AppendFailed(k) =>
            /\ Consumed(k)'
            /\ inflight' = WithoutMsg(inflight, k)
            /\ sensor_data' = sensor_data
            /\ devices' = devices
            /\ connVars' = connVars
            /\ received' = received
       /\ Consumed(k) /\ ~Recorded(k) => Consumed(k)' /\ ~Recorded(k)']_vars

\* C11 witness: the second message went to handleSensorData and its append
\* failed (handler ended, no record), while the first message has its record.
C11_Witness ==
  /\ received = 2
  /\ lastMsg.route = "handleSensorData"
  /\ Consumed(2)
  /\ ~Recorded(2)
  /\ Recorded(1)
  /\ inflight = <<>>


\* The rows of device d in the telemetry log, in the order they were stored.
LogOf(d) == SelectSeq(sensor_data, LAMBDA row : row.device_id = d)
Queried == lastReq'.route = "data" /\ lastReq'.status = 200 /\ <<lastReq, rows, result>>' # <<lastReq, rows, result>>

RecordsOf(k) == {j \in 1..Len(sensor_data) : sensor_data[j].msg = k}

\* C15: a message whose payload is not JSON starts no handler and changes no
\* table, and it is never taken up later; every message delivered, whatever
\* its payload, has at most one telemetry record.
C15_ParseFailureDropped ==
  [][/\ \A k \in 1..(received + 1) :
          k = received' /\ received' = received + 1 /\ ~lastMsg'.json =>
            /\ lastMsg'.route = "parse error"
            /\ inflight' = inflight
            /\ sensor_data' = sensor_data
            /\ devices' = devices
            /\ servo_commands' = servo_commands
            /\ connVars' = connVars
            /\ ~Held(k)' /\ ~Recorded(k)'
     /\ \A k \in 1..received : Cardinality(RecordsOf(k))' <= 1]_vars

\* C15 witness: the second message was not JSON and was dropped while the
\* handler of the first was suspended; the first then got its record.
C15_Witness ==
  /\ received = 2
  /\ ~lastMsg.json
  /\ lastMsg.route = "parse error"
  /\ Recorded(1)
  /\ Held(1)
  /\ ~Held(2)

\* The value a record carries for an optional field of the payload.
GivenOr(v, default) == IF v = JsUndefined THEN default ELSE v
Stored == Len(sensor_data') = Len(sensor_data) + 1

\* C16: every step that stores a telemetry record appends exactly one row, for
\* a message whose insert was awaited, and the row carries the payload's
\* device_id, temperature, humidity and pressure, the payload's servo_state
\* and water_state when it supplies them, and 0 and false when it does not.
C16_RecordFromPayload ==
  [][Stored =>
       /\ SubSeq(sensor_data', 1, Len(sensor_data)) = sensor_data
       /\ \E i \in 1..Len(inflight) :
            LET p == inflight[i].payload
                row == sensor_data'[Len(sensor_data')]
            IN /\ inflight[i].op = "insert sensor_data"
               /\ row.msg = inflight[i].msg
               /\ row.device_id = p.device_id
               /\ row.temperature = p.temperature
               /\ row.humidity = p.humidity
               /\ row.pressure = p.pressure
               /\ row.servo_state = GivenOr(p.servo_state, JsNum(0))
               /\ row.water_state = GivenOr(p.water_state, JsBool(FALSE))]_vars

\* C16 witness: one record from a payload without the optional fields
\* (defaults stored) and one from a payload that supplies them (kept).
C16_Witness ==
  /\ Len(sensor_data) = 2
  /\ sensor_data[1].servo_state = JsNum(0)
  /\ sensor_data[1].water_state = JsBool(FALSE)
  /\ sensor_data[1].pressure = JsUndefined
  /\ sensor_data[1].humidity = JsNum(55)
  /\ sensor_data[2].servo_state = JsNum(90)
  /\ sensor_data[2].water_state = JsBool(FALSE)
  /\ sensor_data[2].pressure = JsNum(1013)

Listed(dir, d) == \E k \in 1..Len(dir) : dir[k].device_id = d
Online(dir, d) == \E k \in 1..Len(dir) : dir[k].device_id = d /\ dir[k].is_online
Quiescent == inflight = <<>>

\* C17 (as claimed): once the ingestions under way have ended, every
\* device_id with a telemetry record has a directory entry with is_online
\* true; and a directory entry is never removed.
C17_DirectoryComplete ==
  [][/\ Quiescent' =>
          \A j \in 1..Len(sensor_data') : Online(devices', sensor_data'[j].device_id)
     /\ \A d \in DeviceIdInputs : Listed(devices, d) => Listed(devices', d)]_vars

\* C18 (as claimed): the records of one device are in the telemetry log in
\* the order in which their messages were delivered.
C18_DeliveryOrder ==
  \A i, j \in 1..Len(sensor_data) :
    i < j /\ sensor_data[i].device_id = sensor_data[j].device_id =>
      sensor_data[i].msg < sensor_data[j].msg

\* The steps in which the client emits 'connect', 'error', 'disconnect' or
\* 'offline'.
LifecycleEvent ==
  ConnectSuccess \/ ConnectFail \/ Drop \/ BrokerDisconnect \/ Close \/ ClientError
StatusRead ==
  lastReq'.route = "mqtt-status" /\ <<lastReq, result>>' # <<lastReq, result>>

\* C20: the connected flag changes in steps of the lifecycle events only; a
\* status read, a control request (publishServoCommand, publishWaterCommand)
\* and the handling of an inbound message leave the handler's connection
\* state as it was; getStatus reports the flag as it is, with the configured
\* broker address and port, and not connected before the first connect().
C20_OnlyLifecycleEvents ==
  [][/\ isConnected' # isConnected => LifecycleEvent
     /\ (ctlVars' # ctlVars \/ ingVars' # ingVars \/ aggVars' # aggVars) =>
          connVars' = connVars /\ ConnectionState' = ConnectionState
     /\ StatusRead /\ mqttHandler =>
          /\ result'.isConnected = isConnected
          /\ result'.broker =
               (IF env.MQTT_BROKER = JsUndefined THEN DefaultBroker ELSE env.MQTT_BROKER)
          /\ result'.port =
               (IF env.MQTT_PORT = JsUndefined THEN JsNum(DefaultPort) ELSE env.MQTT_PORT)
          /\ phase = "none" => ~result'.isConnected]_vars

\* C20 witness: getStatus was called on a handler that never called connect(),
\* with the broker configured, after which nothing else happened.
C20_Witness ==
  /\ lastReq.route = "mqtt-status"
  /\ mqttHandler
  /\ phase = "none"
  /\ env = EnvSet
  /\ result = [isConnected |-> FALSE, broker |-> EnvSet.MQTT_BROKER,
               port |-> EnvSet.MQTT_PORT]

\* C14 (as claimed): a single-device query answered while device d has
\* records returns the record of the message ingested last for d (which is
\* then also the record of d with the greatest timestamp).
C14_LastIngested ==
  [][Queried /\ LogOf(lastReq'.device_id) # <<>> =>
       LET log == LogOf(lastReq'.device_id)
       IN result'.data = <<log[Len(log)]>>]_vars

\* C14, the general case alone: a single-device query returns a record of d
\* with the greatest timestamp, and nothing when d has no record.
C14_GreatestTimestamp ==
  [][Queried =>
       LET log == LogOf(lastReq'.device_id)
       IN /\ log = <<>> => result'.data = <<>>
          /\ log # <<>> =>
               /\ Len(result'.data) = 1
               /\ result'.data[1] \in Range(log)
               /\ \A i \in 1..Len(log) :
                    DateOf(log[i].timestamp) <= DateOf(result'.data[1].timestamp)]_vars

\* The client's transport has been connected and not dropped since its last
\* successful connect.
TransportUp == phase = "connected"

\* C21 (as claimed): whenever the client's transport is connected, the
\* isConnected flag is true, so that an 'error' event on a connection that
\* stays open does not leave publishing disabled.
C21_FlagAgrees == TransportUp => isConnected

\* A step of the servo route that passed the check of the required fields.
ServoAttempt ==
  RequestServed /\ lastReq'.route = "servo" /\ lastReq'.status # 400
\* The audit record of the request was appended to servo_commands.
AuditAppended ==
  /\ Len(servo_commands') = Len(servo_commands) + 1
  /\ SubSeq(servo_commands', 1, Len(servo_commands)) = servo_commands

\* C22: a step of the servo route hands a message to the broker only if it
\* appended the audit record of the same device; when the append fails the
\* step publishes nothing and the request ends with status 500.
C22_PublishAfterAppend ==
  [][ServoAttempt =>
       /\ outbox' # outbox =>
            /\ AuditAppended
            /\ \A i \in Len(outbox) + 1 .. Len(outbox') :
                 outbox'[i].device_id =
                   servo_commands'[Len(servo_commands')].device_id
       /\ ~AuditAppended =>
            /\ outbox' = outbox
            /\ lastReq'.pub = <<>>
            /\ lastReq'.status = 500]_vars

\* C22 witness: a servo request for a valid angle ended with status 500 and
\* no audit record while the handler was connected, and nothing was published.
C22_Witness ==
  /\ lastReq.route = "servo"
  /\ lastReq.status = 500
  /\ lastReq.input = JsNum(90)
  /\ lastReq.saved = NoRecord
  /\ servo_commands = <<>>
  /\ outbox = <<>>
  /\ mqttHandler /\ isConnected /\ phase = "connected"

\* The device-id segment of a topic of the shape sensor/<device_id>/data.
HasDeviceSegment(topic) == MatchesPattern(topic, StrSensor, StrData)
DeviceSegment(topic) == JsStr(Segments(topic, <<>>)[2])

\* C23 (as claimed): every telemetry record that arrived on a topic
\* sensor/<device_id>/data carries the device_id of that topic segment, and
\* every directory entry is that of the topic segment of such a record.
C23_DeviceFromTopic ==
  /\ \A i \in 1..Len(sensor_data) :
       HasDeviceSegment(sensor_data[i].topic) =>
         sensor_data[i].device_id = DeviceSegment(sensor_data[i].topic)
  /\ \A k \in 1..Len(devices) :
       \E i \in 1..Len(sensor_data) :
         /\ HasDeviceSegment(sensor_data[i].topic) =>
              devices[k].device_id = DeviceSegment(sensor_data[i].topic)
         /\ devices[k].device_id = sensor_data[i].device_id

====
